---- MODULE Spec2Model ----
(***************************************************************************)
(* lanthanum.schema_fields: the field library, its construction, its data  *)
(* loading and its schema derivation.                                      *)
(*                                                                         *)
(* The Python object graph is modelled as a store of field objects keyed   *)
(* by object paths (fields), a store of the caller's own dict objects      *)
(* (heap) and the outcome of the last call (raised, lastOp).               *)
(* JSON values are records of one shape, so that any two compare.          *)
(***************************************************************************)
EXTENDS Integers, Sequences, FiniteSets, TLC

VARIABLES
    fields,     \* object path -> field object (its attributes)
    heap,       \* the caller's dict objects: name -> mapping
    subject,    \* which objects the caller has constructed
    kwargs,     \* the keyword arguments the caller constructed its field with
    raised,     \* the exception the last load_data call ended with, or "none"
    lastOp,     \* the caller's last call: operation, receiver and argument
    calls       \* how many calls the caller has made, up to CallsCap

vars == <<fields, heap, subject, kwargs, raised, lastOp, calls>>

RECURSIVE load_data(_, _, _)
RECURSIVE ObjectField_load_loop(_, _, _, _)
RECURSIVE OneOfArrayField_load_loop(_, _, _, _)
RECURSIVE ObjectField_init_loop(_, _, _, _, _)
RECURSIVE OneOfArrayField_init_loop(_, _, _, _, _)
RECURSIVE Declare_loop(_, _, _, _)
RECURSIVE schema(_, _)
RECURSIVE ObjectField_schema_loop(_, _, _, _)
RECURSIVE OneOfArrayField_schema_loop(_, _, _, _)

(***************************************************************************)
(* JSON values.  k is the Python type, a the scalar's text, m the items of *)
(* an inline dict, l the elements of a list.  A "ref" is a reference to    *)
(* one of the caller's dict objects, which load_data may alias and mutate. *)
(***************************************************************************)
J(k, a, m, l) == [k |-> k, a |-> a, m |-> m, l |-> l]
Null == J("null", "", <<>>, <<>>)
Bool(b) == J("bool", b, <<>>, <<>>)
Num(n) == J("num", n, <<>>, <<>>)
Str(s) == J("str", s, <<>>, <<>>)
List(s) == J("list", "", <<>>, s)
Map(f) == J("map", "", f, <<>>)
Ref(o) == J("ref", o, <<>>, <<>>)
\* a TypedField has no data attribute of its own until its first load_data
Unset == J("unset", "", <<>>, <<>>)

Deref(h, v) == IF v.k = "ref" THEN Map(h[v.a]) ELSE v

\* bool(v), as in `data or ""`
Truthy(h, v) ==
    CASE v.k = "null" -> FALSE
      [] v.k = "bool" -> v.a = "true"
      [] v.k = "num" -> v.a # "0"
      [] v.k = "str" -> v.a # ""
      [] v.k = "list" -> Len(v.l) > 0
      [] OTHER -> DOMAIN Deref(h, v).m # {}

\* isinstance(v, dict)
IsDict(v) == v.k \in {"map", "ref"}

\* v.get(key) on a dict
DictGet(h, v, key) ==
    LET m == Deref(h, v).m
    IN  IF key \in DOMAIN m THEN m[key] ELSE Null

\* hash(v) succeeds: lists and dicts are unhashable
Hashable(v) == v.k \notin {"list", "map", "ref"}

\* v[key] = x on the object v names: in place for a caller's dict
SetItemHeap(h, v, key, x) ==
    IF v.k = "ref" THEN [h EXCEPT ![v.a] = (key :> x) @@ @] ELSE h

SetItemValue(v, key, x) ==
    IF v.k = "map" THEN Map((key :> x) @@ v.m) ELSE v

\* iter(v): the elements a for loop visits, or not iterable.  A non-empty
\* str yields its characters and a dict its keys: all of them str objects.
Iterable(v) == v.k \in {"list", "str", "map", "ref"}

IterElements(h, v) ==
    CASE v.k = "list" -> v.l
      [] v.k = "str" -> IF v.a = "" THEN <<>> ELSE <<Str("char")>>
      [] OTHER -> IF DOMAIN Deref(h, v).m = {} THEN <<>> ELSE <<Str("key")>>

\* copy.deepcopy of a value: a referenced dict is copied too
CopyValue(h, v) ==
    CASE v.k = "ref" -> Deref(h, v)
      [] v.k = "list" -> List([i \in DOMAIN v.l |-> Deref(h, v.l[i])])
      [] OTHER -> v

(***************************************************************************)
(* Field objects.                                                          *)
(***************************************************************************)
\* the class whose methods a class inherits
Base(cls) ==
    CASE cls \in {"Dog", "Cat", "House", "Person"} -> "ObjectField"
      [] cls = "Pets" -> "OneOfArrayField"
      [] cls \in {"IntegerField", "DecimalField"} -> "Field"
      [] OTHER -> cls

\* class Meta: data_type and data_format
Meta(cls) ==
    CASE cls = "CharField" -> [data_type |-> Str("string"), data_format |-> Str("text")]
      [] cls = "BooleanField" ->
            [data_type |-> Str("boolean"), data_format |-> Str("checkbox")]
      [] cls = "IntegerField" ->
            [data_type |-> Str("integer"), data_format |-> Str("number")]
      [] cls = "DecimalField" ->
            [data_type |-> Str("number"), data_format |-> Str("number")]
      [] Base(cls) = "ObjectField" -> [data_type |-> Str("object"), data_format |-> Null]
      [] Base(cls) = "OneOfArrayField" ->
            [data_type |-> Str("array"), data_format |-> Str("tabs")]
      [] OTHER -> [data_type |-> Str("string"), data_format |-> Str("text")]

NoKwargs == [key \in {} |-> Null]
Required == "required" :> Bool("true")

\* the Field-valued class attributes of the declared classes, in order:
\* name, class and keyword arguments of each
ClassAttrs(cls) ==
    CASE cls = "Dog" ->
            << <<"name", "CharField", Required>>, <<"breed", "CharField", NoKwargs>> >>
      [] cls = "Cat" ->
            << <<"name", "CharField", Required>>,
               <<"scratches", "BooleanField", Required @@ ("default" :> Bool("true"))>> >>
      [] cls = "Pets" -> << <<"dog", "Dog", NoKwargs>>, <<"cat", "Cat", NoKwargs>> >>
      [] cls = "House" ->
            << <<"owner", "CharField", NoKwargs>>, <<"pets", "Pets", NoKwargs>>,
               <<"pet", "Cat", NoKwargs>> >>
      [] cls = "Person" ->
            << <<"name", "CharField", Required @@ ("label" :> Str("Full name"))>>,
               <<"age", "IntegerField", NoKwargs>> >>
      [] OTHER -> <<>>

\* kw.get(key, dflt)
KwGet(kw, key, dflt) == IF key \in DOMAIN kw THEN kw[key] ELSE dflt

\* a or None, for a value that holds no reference
OrNone(v) == IF Truthy(<<>>, v) THEN v ELSE Null

\* name.title().replace("_", " ") of the names in use
Title(name) ==
    CASE name = "name" -> "Name"
      [] name = "breed" -> "Breed"
      [] name = "scratches" -> "Scratches"
      [] name = "owner" -> "Owner"
      [] name = "pets" -> "Pets"
      [] name = "pet" -> "Pet"
      [] name = "dog" -> "Dog"
      [] name = "cat" -> "Cat"
      [] name = "age" -> "Age"
      [] name = "simple_field" -> "Simple Field"
      [] OTHER -> "Title"

\* Field.__init__(**kwargs).  An attribute the class's __init__ does not set
\* is Unset.
Field_init(cls, kw) ==
    [cls |-> cls, data |-> Null, subs |-> <<>>, wrapped |-> <<>>,
     tag |-> "", items |-> <<>>, allowed |-> <<>>,
     label |-> OrNone(KwGet(kw, "label", Null)),
     default |-> OrNone(KwGet(kw, "default", Null)),
     required |-> KwGet(kw, "required", Bool("false")),
     choices |-> Unset, min_length |-> Unset, max_length |-> Unset,
     unique_items |-> Unset, max_items |-> Unset, min_items |-> Unset,
     item_label |-> Unset]

\* CharField.__init__(**kwargs)
CharField_init(cls, kw) ==
    [Field_init(cls, kw) EXCEPT
        !.choices = KwGet(kw, "choices", Null),
        !.min_length = KwGet(kw, "min_length", Null),
        !.max_length = KwGet(kw, "max_length", Null)]

Under(p, id) == Len(id) >= Len(p) /\ SubSeq(id, 1, Len(p)) = p

\* copy.deepcopy(field): the object at path src and all it owns, copied to dst
DeepCopy(flds, h, src, dst) ==
    LET Move(id) ==
            IF Under(src, id) THEN dst \o SubSeq(id, Len(src) + 1, Len(id)) ELSE id
        srcIds == {id \in DOMAIN flds : Under(src, id)}
        MovePairs(ps) == [i \in DOMAIN ps |-> <<ps[i][1], Move(ps[i][2])>>]
        copy == [nid \in {Move(id) : id \in srcIds} |->
                    LET r == flds[CHOOSE id \in srcIds : Move(id) = nid]
                    IN  [r EXCEPT
                            !.data = CopyValue(h, r.data),
                            !.subs = MovePairs(r.subs),
                            !.wrapped = IF r.wrapped = <<>> THEN <<>> ELSE Move(r.wrapped),
                            !.items = [i \in DOMAIN r.items |-> Move(r.items[i])],
                            !.allowed = MovePairs(r.allowed)]]
    IN  copy @@ flds

\* the loop with the class attribute itself kept instead of a copy of it
ObjectField_init_loop_sharing(flds, h, cls, id, i) ==
    IF i > Len(ClassAttrs(cls)) THEN flds
    ELSE LET name == ClassAttrs(cls)[i][1]
             f2 == [flds EXCEPT ![id].subs = Append(@, <<name, <<"class", cls, name>>>>)]
         IN  ObjectField_init_loop(f2, h, cls, id, i + 1)

\* ObjectField.__init__, the loop over the class attributes
ObjectField_init_loop(flds, h, cls, id, i) ==
    IF i > Len(ClassAttrs(cls)) THEN flds
    ELSE LET name == ClassAttrs(cls)[i][1]
             f1 == DeepCopy(flds, h, <<"class", cls, name>>, id \o <<name>>)
             f2 == [f1 EXCEPT ![id].subs = Append(@, <<name, id \o <<name>>>>)]
         IN  ObjectField_init_loop(f2, h, cls, id, i + 1)

ObjectField_init(flds, h, cls, kw, id) ==
    ObjectField_init_loop((id :> Field_init(cls, kw)) @@ flds, h, cls, id, 1)

\* TypedField.__init__(field, schema_type): Field.__init__ is not called
TypedField_init(flds, h, field, schema_type, id) ==
    LET f1 == DeepCopy(flds, h, field, id \o <<"_field">>)
        f2 == [f1 EXCEPT ![id \o <<"_field">>].label =
                    IF @ = Null THEN Str(Title(schema_type)) ELSE @]
    IN  (id :> [Field_init("TypedField", NoKwargs) EXCEPT
                    !.data = Unset,
                    !.label = Unset,
                    !.default = Unset,
                    !.required = Unset,
                    !.wrapped = id \o <<"_field">>,
                    !.tag = schema_type]) @@ f2

\* OneOfArrayField.__init__, the loop over the class attributes
OneOfArrayField_init_loop(flds, h, cls, id, i) ==
    IF i > Len(ClassAttrs(cls)) THEN flds
    ELSE LET name == ClassAttrs(cls)[i][1]
             tid == id \o <<"_allowed_fields", name>>
             f1 == TypedField_init(flds, h, <<"class", cls, name>>, name, tid)
             f2 == [f1 EXCEPT ![id].allowed = Append(@, <<name, tid>>)]
         IN  OneOfArrayField_init_loop(f2, h, cls, id, i + 1)

OneOfArrayField_init(flds, h, cls, kw, id) ==
    LET self == [Field_init(cls, kw) EXCEPT
                    !.unique_items = KwGet(kw, "unique_items", Null),
                    !.max_items = KwGet(kw, "max_items", Null),
                    !.min_items = KwGet(kw, "min_items", Null),
                    !.item_label = KwGet(kw, "item_label", Str("Item"))]
    IN  OneOfArrayField_init_loop((id :> self) @@ flds, h, cls, id, 1)

\* cls(**kw): construct an instance of cls as the object at path id
New(flds, h, cls, kw, id) ==
    CASE Base(cls) = "ObjectField" -> ObjectField_init(flds, h, cls, kw, id)
      [] Base(cls) = "OneOfArrayField" -> OneOfArrayField_init(flds, h, cls, kw, id)
      [] Base(cls) = "CharField" -> (id :> CharField_init(cls, kw)) @@ flds
      [] OTHER -> (id :> Field_init(cls, kw)) @@ flds

\* cls()
Construct(flds, h, cls, id) == New(flds, h, cls, NoKwargs, id)

\* the class statement: each class attribute is constructed once
Declare_loop(flds, h, cls, i) ==
    IF i > Len(ClassAttrs(cls)) THEN flds
    ELSE Declare_loop(
            New(flds, h, ClassAttrs(cls)[i][2], ClassAttrs(cls)[i][3],
                <<"class", cls, ClassAttrs(cls)[i][1]>>),
            h, cls, i + 1)

Declare(flds, h, cls) == Declare_loop(flds, h, cls, 1)

(***************************************************************************)
(* load_data.  st is the program state a call runs in and returns:         *)
(* [fields, heap, raised, visited]; visited records the objects whose      *)
(* load_data the call has entered.  An exception ends the call: the loops  *)
(* stop at the first element whose load raised.                            *)
(***************************************************************************)
Raise(st, exc) == [st EXCEPT !.raised = exc]

\* field.data as a caller reads it: TypedField.__getattr__ forwards to _field
DataOf(flds, id) ==
    IF flds[id].data = Unset /\ flds[id].wrapped # <<>>
    THEN flds[flds[id].wrapped].data
    ELSE flds[id].data

Field_load_data(st, id, data) ==
    [st EXCEPT !.fields[id].data = data]

CharField_load_data(st, id, data) ==
    [st EXCEPT !.fields[id].data = IF Truthy(st.heap, data) THEN data ELSE Str("")]

\* with every other value coerced to a bool
BooleanField_load_data_coercing(st, id, data) ==
    [st EXCEPT !.fields[id].data =
        IF data \in {Str("true"), Str("True")} THEN Bool("true")
        ELSE IF data \in {Str("false"), Str("False")} THEN Bool("false")
        ELSE IF Truthy(st.heap, data) THEN Bool("true") ELSE Bool("false")]

BooleanField_load_data(st, id, data) ==
    [st EXCEPT !.fields[id].data =
        IF data \in {Str("true"), Str("True")} THEN Bool("true")
        ELSE IF data \in {Str("false"), Str("False")} THEN Bool("false")
        ELSE data]

\* the loop loading only the sub-fields whose key the mapping has
ObjectField_load_loop_present_only(st, id, data, i) ==
    IF i > Len(st.fields[id].subs) THEN st
    ELSE LET name == st.fields[id].subs[i][1]
             field == st.fields[id].subs[i][2]
             st1 == load_data(st, field, DictGet(st.heap, data, name))
         IN  IF name \notin DOMAIN Deref(st.heap, data).m
             THEN ObjectField_load_loop(st, id, data, i + 1)
             ELSE IF st1.raised # "none" THEN st1
             ELSE ObjectField_load_loop(
                    [st1 EXCEPT !.fields[id].data =
                        SetItemValue(@, name, DataOf(st1.fields, field))],
                    id, data, i + 1)

ObjectField_load_loop(st, id, data, i) ==
    IF i > Len(st.fields[id].subs) THEN st
    ELSE LET name == st.fields[id].subs[i][1]
             field == st.fields[id].subs[i][2]
             st1 == load_data(st, field, DictGet(st.heap, data, name))
         IN  IF st1.raised # "none" THEN st1
             ELSE ObjectField_load_loop(
                    [st1 EXCEPT !.fields[id].data =
                        SetItemValue(@, name, DataOf(st1.fields, field))],
                    id, data, i + 1)

\* with None stored for every input that is not a mapping
ObjectField_load_data_dropping(st, id, data) ==
    IF ~IsDict(data) THEN [st EXCEPT !.fields[id].data = Null]
    ELSE ObjectField_load_loop(
            [st EXCEPT !.fields[id].data = Map(<<>>)], id, data, 1)

\* with an empty mapping stored for an input that is not a mapping
ObjectField_load_data_emptying(st, id, data) ==
    IF data = Null THEN [st EXCEPT !.fields[id].data = Null]
    ELSE IF ~IsDict(data) THEN [st EXCEPT !.fields[id].data = Map(<<>>)]
    ELSE ObjectField_load_loop(
            [st EXCEPT !.fields[id].data = Map(<<>>)], id, data, 1)

ObjectField_load_data(st, id, data) ==
    IF data = Null THEN [st EXCEPT !.fields[id].data = Null]
    ELSE IF ~IsDict(data) THEN [st EXCEPT !.fields[id].data = data]
    ELSE ObjectField_load_loop(
            [st EXCEPT !.fields[id].data = Map(<<>>)], id, data, 1)

\* with the input's own schemaType left in place
TypedField_load_data_trusting(st, id, data) ==
    LET st1 == [st EXCEPT !.fields[id].data = data]
    IN  IF ~IsDict(data) THEN Raise(st1, "TypeError")
        ELSE load_data(st1, st1.fields[id].wrapped, DictGet(st1.heap, data, "data"))

TypedField_load_data(st, id, data) ==
    LET tag == Str(st.fields[id].tag)
        st1 == [st EXCEPT !.fields[id].data = data]
    IN  IF ~IsDict(data) THEN Raise(st1, "TypeError")
        ELSE LET st2 == [st1 EXCEPT
                            !.heap = SetItemHeap(@, data, "schemaType", tag),
                            !.fields[id].data = SetItemValue(@, "schemaType", tag)]
             IN  load_data(st2, st2.fields[id].wrapped,
                           DictGet(st2.heap, st2.fields[id].data, "data"))

\* _allowed_fields.get(schema_type): the template path, or <<>> for None
AllowedGet(allowed, schema_type) ==
    IF \E i \in DOMAIN allowed : Str(allowed[i][1]) = schema_type
    THEN allowed[CHOOSE i \in DOMAIN allowed : Str(allowed[i][1]) = schema_type][2]
    ELSE <<>>

\* del self[:]; the dropped elements are garbage
ClearItems(flds, id) ==
    LET keep == {p \in DOMAIN flds : ~Under(id \o <<"item">>, p)}
    IN  [p \in keep |-> IF p = id THEN [flds[p] EXCEPT !.items = <<>>] ELSE flds[p]]

\* the loop loading each element into the template itself, not a copy of it
OneOfArrayField_load_loop_sharing(st, id, elements, i) ==
    IF i > Len(elements) THEN st
    ELSE LET data_item == elements[i]
             schema_type == DictGet(st.heap, data_item, "schemaType")
             field == AllowedGet(st.fields[id].allowed, schema_type)
             st2 == load_data(st, field, data_item)
             st3 == [st2 EXCEPT
                        !.fields[id].data =
                            IF @.k = "list" /\ data_item.k = "map"
                            THEN List([@.l EXCEPT ![i] = st2.fields[field].data])
                            ELSE @]
         IN  IF ~IsDict(data_item) THEN Raise(st, "AttributeError")
             ELSE IF ~Hashable(schema_type) THEN Raise(st, "TypeError")
             ELSE IF field = <<>>
                  THEN OneOfArrayField_load_loop(st, id, elements, i + 1)
             ELSE IF st2.raised # "none" THEN st3
             ELSE OneOfArrayField_load_loop(
                    [st3 EXCEPT !.fields[id].items = Append(@, field)],
                    id, elements, i + 1)

OneOfArrayField_load_loop(st, id, elements, i) ==
    IF i > Len(elements) THEN st
    ELSE LET data_item == elements[i]
             schema_type == DictGet(st.heap, data_item, "schemaType")
             base_field == AllowedGet(st.fields[id].allowed, schema_type)
             field == id \o <<"item", ToString(Len(st.fields[id].items) + 1)>>
             st1 == [st EXCEPT !.fields = DeepCopy(@, st.heap, base_field, field)]
             st2 == load_data(st1, field, data_item)
             \* data_item is an element of self.data: a change made to it in
             \* place shows in the list
             st3 == [st2 EXCEPT
                        !.fields[id].data =
                            IF @.k = "list" /\ data_item.k = "map"
                            THEN List([@.l EXCEPT ![i] = st2.fields[field].data])
                            ELSE @]
         IN  IF ~IsDict(data_item) THEN Raise(st, "AttributeError")
             ELSE IF ~Hashable(schema_type) THEN Raise(st, "TypeError")
             ELSE IF base_field = <<>>
                  THEN OneOfArrayField_load_loop(st, id, elements, i + 1)
             ELSE IF st2.raised # "none" THEN st3
             ELSE OneOfArrayField_load_loop(
                    [st3 EXCEPT !.fields[id].items = Append(@, field)],
                    id, elements, i + 1)

\* without del self[:]
OneOfArrayField_load_data_appending(st, id, data) ==
    LET st1 == [st EXCEPT !.fields[id].data = data]
    IN  IF ~Iterable(data) THEN Raise(st1, "TypeError")
        ELSE OneOfArrayField_load_loop(st1, id, IterElements(st.heap, data), 1)

OneOfArrayField_load_data(st, id, data) ==
    LET st1 == [st EXCEPT !.fields = ClearItems([@ EXCEPT ![id].data = data], id)]
    IN  IF ~Iterable(data) THEN Raise(st1, "TypeError")
        ELSE OneOfArrayField_load_loop(st1, id, IterElements(st.heap, data), 1)

\* field.load_data(data), dispatched on the receiver's class
load_data(st, id, data) ==
    LET s0 == [st EXCEPT !.visited = @ \cup {id}]
    IN  CASE Base(s0.fields[id].cls) = "CharField" -> CharField_load_data(s0, id, data)
          [] Base(s0.fields[id].cls) = "BooleanField" ->
                BooleanField_load_data(s0, id, data)
          [] Base(s0.fields[id].cls) = "ObjectField" -> ObjectField_load_data(s0, id, data)
          [] Base(s0.fields[id].cls) = "TypedField" -> TypedField_load_data(s0, id, data)
          [] Base(s0.fields[id].cls) = "OneOfArrayField" ->
                OneOfArrayField_load_data(s0, id, data)
          [] OTHER -> Field_load_data(s0, id, data)

(***************************************************************************)
(* schema.  Reading the property returns a mapping and, for an ObjectField *)
(* and whatever holds one, assigns to the sub-fields' _label: each         *)
(* operator gives [out, fields], the mapping returned and the field        *)
(* objects after the read.                                                 *)
(***************************************************************************)
\* schema[key] = x
Put(sch, key, x) == Map((key :> x) @@ sch.m)

\* if cond: schema[key] = x
PutIf(cond, sch, key, x) == IF cond THEN Put(sch, key, x) ELSE sch

\* schema[outer][key] = x
PutIn(sch, outer, key, x) == Put(sch, outer, Put(sch.m[outer], key, x))

\* Field.schema
Field_schema(flds, id) ==
    LET self == flds[id]
        s0 == Map(<<>>)
        s1 == PutIf(Meta(self.cls).data_type # Null, s0,
                    "type", Meta(self.cls).data_type)
        s2 == PutIf(Meta(self.cls).data_format # Null, s1,
                    "format", Meta(self.cls).data_format)
        s3 == PutIf(self.label # Null, s2, "title", self.label)
        s4 == PutIf(self.default # Null, s3, "default", self.default)
    IN  [out |-> s4, fields |-> flds]

\* the enumSource and enum entries of a sequence of (value, label) pairs
EnumSource(choices) ==
    List(<<Map(("source" :>
                    List([i \in DOMAIN choices.l |->
                            Map(("value" :> choices.l[i].l[1])
                                @@ ("title" :> choices.l[i].l[2]))]))
               @@ ("title" :> Str("{{item.title}}"))
               @@ ("value" :> Str("{{item.value}}")))>>)

Enum(choices) == List([i \in DOMAIN choices.l |-> choices.l[i].l[1]])

\* CharField.schema
CharField_schema(flds, id) ==
    LET self == flds[id]
        s0 == Field_schema(flds, id).out
        c1 == PutIf(Truthy(<<>>, self.choices), s0,
                    "enumSource", EnumSource(self.choices))
        s1 == PutIf(Truthy(<<>>, self.choices), c1, "enum", Enum(self.choices))
        s2 == PutIf(Truthy(<<>>, self.required) /\ self.min_length = Null, s1,
                    "minLength", Num("1"))
        s3 == PutIf(Truthy(<<>>, self.min_length), s2, "minLength", self.min_length)
        s4 == PutIf(Truthy(<<>>, self.max_length), s3, "maxLength", self.max_length)
    IN  [out |-> s4, fields |-> flds]

\* ObjectField._get_required
ObjectField_get_required(flds, id) ==
    LET IsRequired(sub) == Truthy(<<>>, flds[sub[2]].required)
        req == SelectSeq(flds[id].subs, IsRequired)
    IN  List([i \in DOMAIN req |-> Str(req[i][1])])

\* ObjectField.schema, the loop over _sub_fields
ObjectField_schema_loop(flds, id, sch, i) ==
    IF i > Len(flds[id].subs) THEN [out |-> sch, fields |-> flds]
    ELSE LET name == flds[id].subs[i][1]
             sub_field == flds[id].subs[i][2]
             f1 == [flds EXCEPT ![sub_field].label = Str(Title(name))]
             r == schema(f1, sub_field)
         IN  ObjectField_schema_loop(
                r.fields, id, PutIn(sch, "properties", name, r.out), i + 1)

ObjectField_schema(flds, id) ==
    LET s0 == Field_schema(flds, id).out
        r == ObjectField_schema_loop(flds, id, Put(s0, "properties", Map(<<>>)), 1)
    IN  [out |-> Put(r.out, "required", ObjectField_get_required(r.fields, id)),
         fields |-> r.fields]

\* TypedField.schema
TypedField_schema(flds, id) ==
    LET schema_type == Str(flds[id].tag)
        title == flds[flds[id].wrapped].label
        r == schema(flds, flds[id].wrapped)
        both == List(<<Str("data"), Str("schemaType")>>)
    IN  [out |->
            Map(("type" :> Str("object"))
                @@ ("title" :> title)
                @@ ("properties" :>
                        Map(("schemaType" :>
                                Map(("title" :> Str("Schema Type"))
                                    @@ ("const" :> schema_type)
                                    @@ ("type" :> Str("string"))
                                    @@ ("default" :> schema_type)
                                    @@ ("template" :> schema_type)))
                            @@ ("data" :> r.out)))
                @@ ("defaultProperties" :> both)
                @@ ("required" :> both)),
         fields |-> r.fields]

\* OneOfArrayField.schema, the comprehension over _allowed_fields.values()
OneOfArrayField_schema_loop(flds, id, oneOf, i) ==
    IF i > Len(flds[id].allowed) THEN [out |-> List(oneOf), fields |-> flds]
    ELSE LET r == schema(flds, flds[id].allowed[i][2])
         IN  OneOfArrayField_schema_loop(r.fields, id, Append(oneOf, r.out), i + 1)

OneOfArrayField_schema(flds, id) ==
    LET self == flds[id]
        s0 == Field_schema(flds, id).out
        r == OneOfArrayField_schema_loop(flds, id, <<>>, 1)
        s1 == Put(s0, "items",
                  Map(("title" :> self.item_label)
                      @@ ("headerTemplate" :> Str(self.item_label.a \o " {{i1}}."))
                      @@ ("oneOf" :> r.out)))
        s2 == PutIf(self.unique_items # Null, s1, "uniqueItems", self.unique_items)
        s3 == PutIf(self.min_items # Null, s2, "minItems", self.min_items)
        s4 == PutIf(self.max_items # Null, s3, "maxItems", self.max_items)
    IN  [out |-> s4, fields |-> r.fields]

\* field.schema, dispatched on the receiver's class
schema(flds, id) ==
    CASE Base(flds[id].cls) = "CharField" -> CharField_schema(flds, id)
      [] Base(flds[id].cls) = "ObjectField" -> ObjectField_schema(flds, id)
      [] Base(flds[id].cls) = "TypedField" -> TypedField_schema(flds, id)
      [] Base(flds[id].cls) = "OneOfArrayField" -> OneOfArrayField_schema(flds, id)
      [] OTHER -> Field_schema(flds, id)

(***************************************************************************)
(* The program: the classes the tests declare (DogField, CatField, the     *)
(* AnimalListField of both, a TypedField around a CharField), an           *)
(* ObjectField class with a sub-field of each kind, and a caller that      *)
(* constructs instances and calls load_data on them.                       *)
(***************************************************************************)
MaxLen == 2
CallsCap == 2

NoFields == [p \in {} |-> Null]
NoItems == [key \in {} |-> Null]

\* module level: the class statements, in order
Module1 == Declare(Declare(NoFields, <<>>, "Dog"), <<>>, "Cat")
Module2 == Declare(Module1, <<>>, "Pets")
Module3 == Declare(Module2, <<>>, "House")

Subjects == {"char", "bool", "int", "pair", "house", "typed", "pets"}

\* the instances the caller constructs
Constructed(subj) ==
    CASE subj = "char" -> Construct(NoFields, <<>>, "CharField", <<"c">>)
      [] subj = "bool" -> Construct(NoFields, <<>>, "BooleanField", <<"b">>)
      [] subj = "int" -> Construct(NoFields, <<>>, "IntegerField", <<"n">>)
      [] subj = "pair" ->
            Construct(Construct(Declare(NoFields, <<>>, "Cat"), <<>>, "Cat", <<"A">>),
                      <<>>, "Cat", <<"B">>)
      [] subj = "house" -> Construct(Module3, <<>>, "House", <<"H">>)
      [] subj = "typed" ->
            LET f1 == Construct(Module1, <<>>, "CharField", <<"simple_char_field">>)
                f2 == Construct(f1, <<>>, "Cat", <<"cat_field">>)
                f3 == TypedField_init(f2, <<>>, <<"simple_char_field">>,
                                      "simple_field", <<"T">>)
            IN  TypedField_init(f3, <<>>, <<"cat_field">>, "cat", <<"U">>)
      [] OTHER -> Construct(Module2, <<>>, "Pets", <<"P">>)

Objs == {"o1", "o2"}

Opt(key, values) == {NoItems} \cup {key :> x : x \in values}

Atoms ==
    {Null, Bool("true"), Bool("false"), Num("0"), Num("1"), Str(""), Str("true"),
     Str("True"), Str("false"), Str("False"), Str("yes"), Str("Rex")}

PrimInputs ==
    Atoms \cup {List(<<>>), List(<<Num("1")>>), Map(NoItems), Map("name" :> Str("Rex"))}

CatMaps ==
    {n @@ s @@ e :
        n \in Opt("name", {Str("Rex")}),
        s \in Opt("scratches", {Str("true"), Bool("false")}),
        e \in Opt("age", {Num("1")})}

NonMappings == {Null, Str("Rex"), Num("0"), List(<<>>)}

ObjInputs == {Map(m) : m \in CatMaps} \cup NonMappings

DogItem == Map(("schemaType" :> Str("dog")) @@ ("data" :> Map("name" :> Str("Rex"))))
CatItem == Map(("schemaType" :> Str("cat")) @@ ("data" :> Map("scratches" :> Str("True"))))
FishItem == Map(("schemaType" :> Str("fish")) @@ ("data" :> Map(NoItems)))

HouseMaps ==
    {o @@ p @@ ps :
        o \in Opt("owner", {Str("Ann")}),
        p \in Opt("pet", {Null, Str("x"), Map("name" :> Str("Rex")),
                          Map("scratches" :> Str("True"))}),
        ps \in Opt("pets", {Null, List(<<>>), List(<<DogItem>>),
                            List(<<FishItem, CatItem>>)})}

HouseInputs == {Map(m) : m \in HouseMaps} \cup {Null, Num("0")}

\* what the caller's dict objects hold when the calls begin
HeapMaps(tags, datas) ==
    {t @@ d : t \in Opt("schemaType", tags), d \in Opt("data", datas)}

Heaps(subj) ==
    CASE subj = "typed" ->
            {("o1" :> m1) @@ ("o2" :> m2) :
                m1 \in HeapMaps({Str("cat"), Str("fish")},
                                {Str("hi"), Map("name" :> Str("Rex"))}),
                m2 \in {("schemaType" :> Str("simple_field")) @@ ("data" :> Str("yo"))}}
      [] subj = "pets" ->
            {("o1" :> m1) @@ ("o2" :> m2) :
                m1 \in HeapMaps({Str("dog"), Str("cat"), Str("fish"),
                                 List(<<Str("dog")>>)},
                                {Map("name" :> Str("Rex"))}),
                m2 \in HeapMaps({Str("dog"), Str("cat")},
                                {Map("name" :> Str("Tom"))})}
      [] OTHER -> {[o \in Objs |-> NoItems]}

TypedInputs == {Ref(o) : o \in Objs} \cup NonMappings

RefLists == UNION {{List(s) : s \in [1..n -> {Ref(o) : o \in Objs}]} : n \in 0..MaxLen}

ArrayInputs ==
    RefLists \cup {List(<<Ref("o1"), Num("1")>>), Null, Num("0"), Str(""), Str("ab"),
                   Map(NoItems), Ref("o2")}

NoOp == [op |-> "none", id |-> <<>>, arg |-> Null]

Init ==
    /\ subject \in Subjects
    /\ fields = Constructed(subject)
    /\ heap \in Heaps(subject)
    /\ kwargs = NoKwargs
    /\ raised = "none"
    /\ lastOp = NoOp
    /\ calls = 0

\* the state a call made now runs in
Now == [fields |-> fields, heap |-> heap, raised |-> "none", visited |-> {}]

\* the caller's statement  id.load_data(v)
Call(id, v) ==
    LET st == load_data(Now, id, v)
    IN  /\ fields' = st.fields
        /\ heap' = st.heap
        /\ raised' = st.raised
        /\ lastOp' = [op |-> "load_data", id |-> id, arg |-> v]
        /\ calls' = IF calls < CallsCap THEN calls + 1 ELSE calls
        /\ UNCHANGED <<subject, kwargs>>

LoadCharField ==
    /\ subject = "char"
    /\ \E v \in PrimInputs : Call(<<"c">>, v)

LoadBooleanField ==
    /\ subject = "bool"
    /\ \E v \in PrimInputs : Call(<<"b">>, v)

LoadField ==
    /\ subject = "int"
    /\ \E v \in PrimInputs : Call(<<"n">>, v)

LoadObjectField ==
    /\ subject = "pair"
    /\ \E id \in {<<"A">>, <<"B">>}, v \in ObjInputs : Call(id, v)

LoadNestedObjectField ==
    /\ subject = "house"
    /\ \E v \in HouseInputs : Call(<<"H">>, v)

LoadTypedField ==
    /\ subject = "typed"
    /\ \E id \in {<<"T">>, <<"U">>}, v \in TypedInputs : Call(id, v)

LoadOneOfArrayField ==
    /\ subject = "pets"
    /\ \E v \in ArrayInputs : Call(<<"P">>, v)

Next ==
    \/ LoadCharField
    \/ LoadBooleanField
    \/ LoadField
    \/ LoadObjectField
    \/ LoadNestedObjectField
    \/ LoadTypedField
    \/ LoadOneOfArrayField

Spec == Init /\ [][Next]_vars

(***************************************************************************)
(* The program with configured fields: a caller that constructs a field    *)
(* with keyword arguments, reads schema on it and on the objects it owns,  *)
(* and calls load_data on it.                                              *)
(***************************************************************************)
SchemaSubjects == {"charcfg", "boolcfg", "intcfg", "person", "typedcfg", "petscfg"}

Lengths == {Num("0"), Num("1"), Num("2")}
Defaults == {Bool("false"), Bool("true"), Num("0"), Num("1"), Str(""), Str("x")}
Labels == {Str(""), Str("Sure")}

LengthKwargs ==
    {r @@ mn @@ mx :
        r \in Opt("required", {Bool("true"), Bool("false")}),
        mn \in Opt("min_length", Lengths),
        mx \in Opt("max_length", Lengths \ {Num("1")})}

MetaKwargs ==
    {l @@ d @@ r :
        l \in Opt("label", Labels),
        d \in Opt("default", Defaults),
        r \in Opt("required", {Bool("true")})}

\* char_choices_field_options
ChoicesKwargs ==
    ("label" :> Str("Choices Field")) @@ ("default" :> Str("item-1")) @@ Required
    @@ ("choices" :> List(<<List(<<Str("item-1"), Str("Item 1")>>),
                            List(<<Str("item-2"), Str("Item 2")>>),
                            List(<<Str("item-3"), Str("Item 3")>>)>>))

\* simple_char_field_options
SimpleCharKwargs ==
    ("label" :> Str("Simple Char Field")) @@ ("default" :> Str("Simple")) @@ Required

\* pet_list_field_options
PetListKwargs ==
    ("label" :> Str("Pets")) @@ Required @@ ("item_label" :> Str("Pet"))
    @@ ("max_items" :> Num("10")) @@ ("min_items" :> Num("2"))

\* the keyword arguments the caller may construct its field with
KwargsOf(subj) ==
    CASE subj = "charcfg" -> LengthKwargs \cup MetaKwargs \cup {ChoicesKwargs}
      [] subj \in {"boolcfg", "intcfg"} -> MetaKwargs
      [] subj = "person" -> {NoKwargs, "label" :> Str("Owner")}
      [] subj = "typedcfg" -> {NoKwargs, SimpleCharKwargs}
      [] OTHER -> {NoKwargs, PetListKwargs}

\* the instances the caller constructs with keyword arguments kw
Configured(subj, kw) ==
    CASE subj = "charcfg" -> New(NoFields, <<>>, "CharField", kw, <<"c">>)
      [] subj = "boolcfg" -> New(NoFields, <<>>, "BooleanField", kw, <<"b">>)
      [] subj = "intcfg" -> New(NoFields, <<>>, "IntegerField", kw, <<"n">>)
      [] subj = "person" ->
            New(Declare(NoFields, <<>>, "Person"), <<>>, "Person", kw, <<"X">>)
      [] subj = "typedcfg" ->
            TypedField_init(
                New(NoFields, <<>>, "CharField", kw, <<"simple_char_field">>),
                <<>>, <<"simple_char_field">>, "simple_field", <<"T">>)
      [] OTHER -> New(Module2, <<>>, "Pets", kw, <<"P">>)

SchemaHeap(subj) ==
    CASE subj = "typedcfg" ->
            ("o1" :> (("schemaType" :> Str("other")) @@ ("data" :> Str("x"))))
            @@ ("o2" :> NoItems)
      [] subj = "petscfg" -> ("o1" :> DogItem.m) @@ ("o2" :> CatItem.m)
      [] OTHER -> [o \in Objs |-> NoItems]

\* the receiver and the arguments of the caller's load_data calls
LoadTarget(subj) ==
    CASE subj = "charcfg" -> <<"c">>
      [] subj = "boolcfg" -> <<"b">>
      [] subj = "intcfg" -> <<"n">>
      [] subj = "person" -> <<"X">>
      [] subj = "typedcfg" -> <<"T">>
      [] OTHER -> <<"P">>

LoadInputs(subj) ==
    CASE subj \in {"charcfg", "boolcfg", "intcfg"} ->
            {Null, Str("x"), Str("false"), Num("0")}
      [] subj = "person" -> {Null, Map(NoItems), Map("name" :> Str("Rex"))}
      [] subj = "typedcfg" -> {Ref("o1")}
      [] OTHER -> {List(<<>>), List(<<Ref("o1")>>), List(<<Ref("o2"), Ref("o1")>>)}

SchemaInit ==
    /\ subject \in SchemaSubjects
    /\ kwargs \in KwargsOf(subject)
    /\ fields = Configured(subject, kwargs)
    /\ heap = SchemaHeap(subject)
    /\ raised = "none"
    /\ lastOp = NoOp
    /\ calls = 0

\* the objects the caller can reach from its instances
Instances == {p \in DOMAIN fields : p[1] # "class"}

\* the caller's expression  id.schema
Read(id) ==
    /\ fields' = schema(fields, id).fields
    /\ raised' = "none"
    /\ lastOp' = [op |-> "schema", id |-> id, arg |-> Null]
    /\ calls' = IF calls < CallsCap THEN calls + 1 ELSE calls
    /\ UNCHANGED <<heap, subject, kwargs>>

ReadFieldSchema ==
    \E id \in Instances :
        /\ Base(fields[id].cls) \in {"Field", "CharField", "BooleanField"}
        /\ Read(id)

ReadObjectFieldSchema ==
    \E id \in Instances :
        /\ Base(fields[id].cls) = "ObjectField"
        /\ Read(id)

ReadTypedFieldSchema ==
    \E id \in Instances :
        /\ Base(fields[id].cls) = "TypedField"
        /\ Read(id)

ReadOneOfArrayFieldSchema ==
    \E id \in Instances :
        /\ Base(fields[id].cls) = "OneOfArrayField"
        /\ Read(id)

LoadConfigured ==
    \E v \in LoadInputs(subject) : Call(LoadTarget(subject), v)

SchemaNext ==
    \/ ReadFieldSchema
    \/ ReadObjectFieldSchema
    \/ ReadTypedFieldSchema
    \/ ReadOneOfArrayFieldSchema
    \/ LoadConfigured

SchemaSpec == SchemaInit /\ [][SchemaNext]_vars

(***************************************************************************)
(* Properties.                                                             *)
(***************************************************************************)
Called == lastOp # NoOp
Receiver == lastOp.id
Arg == lastOp.arg
ReceiverBase == Base(fields[Receiver].cls)

\* the state of freshly constructed instances, with the caller's dicts as they are
Fresh == [Now EXCEPT !.fields = Constructed(subject)]

P == <<"P">>
DeclaredTags(id) == {Str(fields[id].allowed[i][1]) : i \in DOMAIN fields[id].allowed}
Matches(id, e) ==
    IsDict(e) /\ DictGet(heap, e, "schemaType") \in DeclaredTags(id)
ListOfMappings(v) == v.k = "list" /\ \A i \in DOMAIN v.l : IsDict(v.l[i])
HashableTags(v) ==
    \A i \in DOMAIN v.l : Hashable(DictGet(heap, v.l[i], "schemaType"))
MatchingElements(id, v) ==
    LET Test(e) == Matches(id, e) IN SelectSeq(v.l, Test)

\* items i of the collection are the elements exp, in order
ItemsAre(id, exp) ==
    /\ Len(fields[id].items) = Len(exp)
    /\ \A i \in DOMAIN exp :
        /\ Str(fields[fields[id].items[i]].tag) = DictGet(heap, exp[i], "schemaType")
        /\ fields[fields[id].items[i]].data = exp[i]

\* C1: after OneOfArrayField.load_data on any list of mappings the call has
\* not raised and the collection holds exactly the elements whose schemaType
\* names a declared variant, in input order, each with that tag.
C1_LoadKeepsMatchingElements ==
    (subject = "pets" /\ Called /\ ListOfMappings(Arg)) =>
        /\ raised = "none"
        /\ ItemsAre(P, MatchingElements(P, Arg))

\* The same, for lists of mappings whose schemaType values are hashable.
LoadKeepsMatchingHashable ==
    (subject = "pets" /\ Called /\ ListOfMappings(Arg) /\ HashableTags(Arg)) =>
        /\ raised = "none"
        /\ ItemsAre(P, MatchingElements(P, Arg))

\* the matching elements a load visits before it stops: all of them, or those
\* before the first element it raises on
RECURSIVE VisitedMatching(_, _, _)
VisitedMatching(id, elements, i) ==
    IF i > Len(elements) THEN <<>>
    ELSE IF ~IsDict(elements[i]) THEN <<>>
    ELSE IF ~Hashable(DictGet(heap, elements[i], "schemaType")) THEN <<>>
    ELSE IF Matches(id, elements[i])
         THEN <<elements[i]>> \o VisitedMatching(id, elements, i + 1)
    ELSE VisitedMatching(id, elements, i + 1)

\* C2: a OneOfArrayField starts empty, and after any sequence of load_data
\* calls its elements are those of the last call's input alone: none of an
\* earlier load remains and the length does not accumulate.
C2_LoadReplaces ==
    subject = "pets" =>
        /\ ~Called => fields[P].items = <<>>
        /\ Called =>
            ItemsAre(P, IF Arg.k = "list" THEN VisitedMatching(P, Arg.l, 1) ELSE <<>>)

C2_Witness ==
    /\ subject = "pets"
    /\ calls = 2
    /\ Arg = List(<<Ref("o2")>>)
    /\ Len(fields[P].items) = 1
    /\ fields[fields[P].items[1]].data = Ref("o2")

TypedFields == {id \in DOMAIN fields : fields[id].cls = "TypedField"}

\* C3: a TypedField's schema_type is the tag given at construction whatever was
\* loaded, and after load_data with a mapping the call has not raised and the
\* receiver's data["schemaType"] is that tag.
C3_TagIsAuthoritative ==
    /\ \A id \in TypedFields \cap DOMAIN Constructed(subject) :
            fields[id].tag = Constructed(subject)[id].tag
    /\ (subject = "typed" /\ Called /\ IsDict(Arg)) =>
            /\ raised = "none"
            /\ fields[Receiver].tag = Constructed(subject)[Receiver].tag
            /\ DictGet(heap, fields[Receiver].data, "schemaType")
                    = Str(fields[Receiver].tag)

C3_Witness ==
    /\ subject = "typed"
    /\ calls = 2
    /\ Receiver = <<"T">>
    /\ Arg = Ref("o1")
    /\ heap["o1"]["schemaType"] = Str("simple_field")
    /\ fields[<<"U">>].data = Ref("o2")

A == <<"A">>
B == <<"B">>

\* an ObjectField's data and its sub-fields' data, read through _sub_fields
Tree(flds, id) ==
    [data |-> flds[id].data,
     subs |-> [i \in DOMAIN flds[id].subs |-> flds[flds[id].subs[i][2]].data]]

\* the present state with every other instance as it was constructed
Alone(inst) ==
    [Now EXCEPT !.fields =
        [p \in DOMAIN fields |->
            IF \E other \in {A, B} \ {inst} : Under(other, p)
            THEN Constructed(subject)[p]
            ELSE fields[p]]]

C4_Step ==
    subject = "pair" =>
        /\ \A inst \in {A, B} :
            lastOp'.id # inst => Tree(fields', inst) = Tree(fields, inst)
        /\ Tree(fields', lastOp'.id) =
                Tree(load_data(Alone(lastOp'.id), lastOp'.id, lastOp'.arg).fields,
                     lastOp'.id)

\* C4: of two ObjectField instances of one class, a load_data call on one
\* leaves the data and the sub-fields' data of the other as they were, and
\* gives the receiver what the call gives it when the other instance is
\* untouched since construction.
C4_InstancesIndependent == [][C4_Step]_vars

C4_Witness ==
    /\ subject = "pair"
    /\ calls = 2
    /\ Receiver = B
    /\ fields[<<"A", "name">>].data = Str("Rex")
    /\ fields[A].data.k = "map"
    /\ fields[<<"B", "name">>].data = Str("")
    /\ fields[B].data.k = "map"

SubNames(id) == {fields[id].subs[i][1] : i \in DOMAIN fields[id].subs}

Mirrors(id, arg) ==
    /\ fields[id].data.k = "map"
    /\ DOMAIN fields[id].data.m = SubNames(id)
    /\ \A i \in DOMAIN fields[id].subs :
        LET name == fields[id].subs[i][1]
            sub == fields[id].subs[i][2]
            loaded == load_data(Now, sub, DictGet(heap, arg, name))
        IN  /\ fields[id].data.m[name] = DataOf(fields, sub)
            /\ loaded.raised = "none"
            /\ DataOf(loaded.fields, sub) = DataOf(fields, sub)
            /\ (Base(fields[sub].cls) = "CharField" /\ name \notin DOMAIN arg.m)
                    => fields[sub].data = Str("")

\* C5: after ObjectField.load_data with a mapping, whatever the kinds of the
\* sub-fields, the call has not raised, every sub-field holds what loading the
\* mapping's value for its name (None when missing) gives, and data is a
\* mapping of exactly the declared names to the sub-fields' data.
C5_ObjectLoadMirrorsSubFields ==
    (Called /\ ReceiverBase = "ObjectField" /\ IsDict(Arg)) =>
        /\ raised = "none"
        /\ Mirrors(Receiver, Arg)

\* The same, when every OneOfArrayField sub-field is given a list.
ObjectLoadMirrorsGivenLists ==
    (/\ Called
     /\ ReceiverBase = "ObjectField"
     /\ IsDict(Arg)
     /\ \A i \in DOMAIN fields[Receiver].subs :
            Base(fields[fields[Receiver].subs[i][2]].cls) = "OneOfArrayField"
                => DictGet(heap, Arg, fields[Receiver].subs[i][1]).k = "list") =>
        /\ raised = "none"
        /\ Mirrors(Receiver, Arg)

C6_Step ==
    (Base(fields[lastOp'.id].cls) = "ObjectField" /\ ~IsDict(lastOp'.arg)) =>
        /\ raised' = "none"
        /\ fields'[lastOp'.id].data = lastOp'.arg
        /\ lastOp'.arg = Null => fields'[lastOp'.id].data = Null
        /\ DOMAIN fields' = DOMAIN fields
        /\ \A p \in DOMAIN fields : p # lastOp'.id => fields'[p] = fields[p]

\* C6: ObjectField.load_data with an input that is not a mapping does not
\* raise, sets data to the input (None for None) and changes no other object:
\* every sub-field keeps its data.
C6_NonMappingPassesThrough == [][C6_Step]_vars

C6_Witness ==
    /\ subject = "pair"
    /\ Receiver = A
    /\ Arg = Num("0")
    /\ fields[A].data = Num("0")
    /\ fields[<<"A", "name">>].data = Str("Rex")
    /\ raised = "none"

\* a fresh instance after the last call alone
After == load_data(Fresh, Receiver, Arg)

Owned(after, id) == {p \in DOMAIN fields \cup DOMAIN after.fields : Under(id, p)}

SameAs(after, p) ==
    /\ p \in DOMAIN fields
    /\ p \in DOMAIN after.fields
    /\ fields[p] = after.fields[p]

\* C7 as stated: after any calls, the receiver and all it owns are as in a
\* freshly constructed instance after the last call alone.
C7_SecondLoadOverwritesAll ==
    Called =>
        LET after == After
        IN  \A p \in Owned(after, Receiver) : SameAs(after, p)

\* the last call reaches p: every ObjectField and TypedField that owns p, up
\* to the receiver, received a mapping, and no load_data raised before p's own
Reached(after, p) ==
    /\ \A n \in Len(Receiver)..(Len(p) - 1) :
        LET q == SubSeq(p, 1, n)
        IN  (q \in DOMAIN after.fields
                /\ Base(after.fields[q].cls) \in {"ObjectField", "TypedField"})
                => IsDict(after.fields[q].data)
    /\ after.raised = "none" \/ p \in after.visited

\* C7 amended: the call ends as on a fresh instance, the receiver's own data
\* is that of a fresh instance after the last call alone, and so is every
\* object it owns that the last call reaches; an object the last call does
\* not reach may keep the earlier load's data.
C7_SecondLoadOverwritesReached ==
    Called =>
        LET after == After
        IN  /\ raised = after.raised
            /\ fields[Receiver].data = after.fields[Receiver].data
            /\ \A p \in Owned(after, Receiver) : Reached(after, p) => SameAs(after, p)

C7_Witness ==
    /\ subject = "pair"
    /\ calls = 2
    /\ Receiver = A
    /\ Arg = Map("scratches" :> Bool("false"))
    /\ fields[<<"A", "name">>].data = Str("")
    /\ fields[B].data = Null

RoundTripKinds == {"Field", "CharField", "BooleanField", "ObjectField"}

Stable(p) ==
    LET d == fields[p].data
        again == load_data(Now, p, d)
        fresh == load_data(Fresh, p, d)
    IN  /\ again.raised = "none"
        /\ again.fields[p].data = d
        /\ fresh.raised = "none"
        /\ fresh.fields[p].data = d

\* C8: after load_data on a primitive field or an ObjectField (nested ones
\* included) has returned, loading the data it holds again, into the same
\* instance or into a fresh one, leaves data equal.
C8_RoundTripStable ==
    (Called /\ raised = "none" /\ ReceiverBase \in RoundTripKinds) => Stable(Receiver)

C8_Witness ==
    /\ subject = "house"
    /\ Receiver = <<"H">>
    /\ raised = "none"
    /\ fields[<<"H">>].data.k = "map"
    /\ fields[<<"H", "pet", "scratches">>].data = Bool("true")
    /\ fields[<<"H", "owner">>].data = Str("")

BooleanExpected(v) ==
    IF v.k = "str" /\ v.a \in {"true", "True"} THEN Bool("true")
    ELSE IF v.k = "str" /\ v.a \in {"false", "False"} THEN Bool("false")
    ELSE v

\* C9: BooleanField.load_data stores true for "true" and "True", false for
\* "false" and "False", and any other input unchanged; so for a BooleanField
\* loaded as the sub-field of an ObjectField.
C9_BooleanStrings ==
    /\ (Called /\ ReceiverBase = "BooleanField") =>
            fields[Receiver].data = BooleanExpected(Arg)
    /\ (subject = "pair" /\ Called /\ IsDict(Arg)) =>
            fields[Receiver \o <<"scratches">>].data
                = BooleanExpected(DictGet(heap, Arg, "scratches"))

C9_Witness ==
    /\ subject = "bool"
    /\ Arg = Str("False")
    /\ fields[<<"b">>].data = Bool("false")

\* C10: every load_data call, on every kind of field and with every JSON
\* value, returns without raising.
C10_LoadNeverRaises == raised = "none"

\* The calls on primitive fields and on ObjectFields of primitive sub-fields
\* return without raising.
PrimitiveLoadNeverRaises ==
    subject \in {"char", "bool", "int", "pair"} => raised = "none"

\* the elements the last call on id loaded, in order
Loaded(id) == IF Arg.k = "list" THEN VisitedMatching(id, Arg.l, 1) ELSE <<>>

\* the objects of the variant templates of the OneOfArrayField id
Templates(id) == {p \in DOMAIN fields : Under(id \o <<"_allowed_fields">>, p)}

\* element i of the collection and all it owns are what loading the input
\* element e alone into a copy of its variant's template as constructed gives
OwnInputOnly(id, i, e) ==
    LET item == fields[id].items[i]
        template == AllowedGet(fields[id].allowed, DictGet(heap, e, "schemaType"))
        copied == [Now EXCEPT
                    !.fields = DeepCopy(Constructed(subject), heap, template, item)]
        alone == load_data(copied, item, e).fields
    IN  /\ fields[item].data = e
        /\ \A p \in DOMAIN fields : Under(item, p) => fields[p] = alone[p]

\* C13: after any load_data calls on a OneOfArrayField, the variant templates
\* and their wrapped fields are as constructed, and the elements of the
\* collection, two of one tag included, are distinct objects, none of them a
\* template, each holding what its own input element alone gives.
C13_NoSharedVariantState ==
    subject = "pets" =>
        /\ \A p \in Templates(P) : fields[p] = Constructed(subject)[p]
        /\ \A i \in DOMAIN fields[P].items :
            /\ fields[P].items[i] \notin Templates(P)
            /\ fields[fields[P].items[i]].wrapped \notin Templates(P)
            /\ \A j \in DOMAIN fields[P].items :
                i # j =>
                    /\ fields[P].items[i] # fields[P].items[j]
                    /\ fields[fields[P].items[i]].wrapped
                            # fields[fields[P].items[j]].wrapped
        /\ Called =>
            /\ Len(fields[P].items) = Len(Loaded(P))
            /\ \A i \in DOMAIN fields[P].items : OwnInputOnly(P, i, Loaded(P)[i])

C13_Witness ==
    /\ subject = "pets"
    /\ calls = 2
    /\ Arg = List(<<Ref("o1"), Ref("o2")>>)
    /\ DictGet(heap, Ref("o1"), "schemaType") = Str("dog")
    /\ DictGet(heap, Ref("o2"), "schemaType") = Str("dog")
    /\ Len(fields[P].items) = 2
    /\ fields[<<"P", "item", "1", "_field", "name">>].data = Str("Rex")
    /\ fields[<<"P", "item", "2", "_field", "name">>].data = Str("Tom")
    /\ fields[<<"P", "_allowed_fields", "dog", "_field", "name">>].data = Null

\* the objects the receiver of a call owns, the receiver included
OwnedBy(flds, id) == {p \in DOMAIN flds : Under(id, p)}

\* v is, or is a list holding, one of the caller's dict objects
HoldsCallersDict(v) ==
    \/ v.k = "ref"
    \/ v.k = "list" /\ \E i \in DOMAIN v.l : v.l[i].k = "ref"

LoadsVariant ==
    /\ lastOp'.op = "load_data"
    /\ Base(fields[lastOp'.id].cls) \in {"TypedField", "OneOfArrayField"}

\* C14: a load_data call on a TypedField or a OneOfArrayField leaves the
\* caller's mappings with the keys and values they had before the call, the
\* caller's own schemaType entry included.
C14_CallerValueUntouched == [][LoadsVariant => heap' = heap]_vars

\* C14, its last clause: after the call no object of the receiver holds one
\* of the caller's mappings, so that no later change to the field's data
\* shows through the caller's value.
FieldHoldsNoCallerMapping ==
    [][LoadsVariant =>
        \A p \in OwnedBy(fields', lastOp'.id) : ~HoldsCallersDict(fields'[p].data)]_vars

\* A load_data call on a OneOfArrayField leaves the caller's mappings with
\* the keys and values they had.
ArrayLoadKeepsCallerMappings ==
    [][(lastOp'.op = "load_data"
            /\ Base(fields[lastOp'.id].cls) = "OneOfArrayField") => heap' = heap]_vars

(***************************************************************************)
(* Properties of the configured fields.                                    *)
(***************************************************************************)
C == <<"c">>

\* the mapping a read of id.schema returns now
SchemaOf(id) == schema(fields, id).out

\* the caller's last call was a read of id.schema
HasRead(id) == lastOp.op = "schema" /\ lastOp.id = id

HasKey(sch, key) == key \in DOMAIN sch.m
Given(key) == key \in DOMAIN kwargs
IsRequired == KwGet(kwargs, "required", Bool("false")) = Bool("true")

\* the schema has key exactly when x is not None, and then with the value x
KeyIs(sch, key, x) ==
    IF x = Null THEN ~HasKey(sch, key) ELSE HasKey(sch, key) /\ sch.m[key] = x

\* the minLength the configuration asks for, None for no key
ExpectedMinLength ==
    IF Given("min_length") THEN kwargs["min_length"]
    ELSE IF IsRequired THEN Num("1") ELSE Null

\* C11: the schema read from a CharField has minLength equal to min_length when one is
\* given (0 included), minLength 1 when none is given and the field is
\* required, and no minLength otherwise; it has maxLength equal to max_length
\* when one is given (0 included) and no maxLength otherwise.
C11_LengthBounds ==
    (subject = "charcfg" /\ HasRead(C)) =>
        /\ KeyIs(SchemaOf(C), "minLength", ExpectedMinLength)
        /\ KeyIs(SchemaOf(C), "maxLength", KwGet(kwargs, "max_length", Null))

\* The same, for the fields whose given bounds are positive.
LengthBoundsPositive ==
    (/\ subject = "charcfg"
     /\ HasRead(C)
     /\ KwGet(kwargs, "min_length", Null) # Num("0")
     /\ KwGet(kwargs, "max_length", Null) # Num("0")) =>
        /\ KeyIs(SchemaOf(C), "minLength", ExpectedMinLength)
        /\ KeyIs(SchemaOf(C), "maxLength", KwGet(kwargs, "max_length", Null))

Primitive == subject \in {"charcfg", "boolcfg", "intcfg"}

\* the schema has default and title exactly as configured
EchoesConfiguration ==
    /\ KeyIs(SchemaOf(LoadTarget(subject)), "default", KwGet(kwargs, "default", Null))
    /\ KeyIs(SchemaOf(LoadTarget(subject)), "title", KwGet(kwargs, "label", Null))

\* a load_data step leaves the receiver's schema as it was
LoadKeepsSchema ==
    lastOp'.op = "load_data" =>
        schema(fields', lastOp'.id).out = schema(fields, lastOp'.id).out

\* C12: the schema read from a field has the key default exactly when a default was
\* configured, with the configured value (false, 0 and "" included), and the
\* key title exactly when a label was configured; and a load_data call leaves
\* the schema as it was.
C12_SchemaEchoesConfiguration ==
    /\ []((Primitive /\ HasRead(LoadTarget(subject))) => EchoesConfiguration)
    /\ [][LoadKeepsSchema]_vars

\* The same, for the fields whose configured default and label are truthy.
SchemaEchoesTruthyConfiguration ==
    /\ []((/\ Primitive
           /\ HasRead(LoadTarget(subject))
           /\ Given("default") => Truthy(<<>>, kwargs["default"])
           /\ Given("label") => Truthy(<<>>, kwargs["label"])) => EchoesConfiguration)
    /\ [][LoadKeepsSchema]_vars

X == <<"X">>

ReadsSchema == lastOp'.op = "schema"

\* C15: a read of schema, on a field of any kind, leaves every object's data
\* and configuration as they were, so that the schema of every object read
\* directly afterwards, a sub-field's with its declared label included, is
\* what it was before the read.
C15_SchemaReadIsPure ==
    [][ReadsSchema =>
        /\ DOMAIN fields' = DOMAIN fields
        /\ \A p \in DOMAIN fields :
            /\ fields'[p] = fields[p]
            /\ schema(fields', p).out = schema(fields, p).out]_vars

\* A read of schema leaves every object's data as it was, and a read on a
\* primitive field leaves every object as it was.
SchemaReadKeepsData ==
    [][ReadsSchema =>
        /\ DOMAIN fields' = DOMAIN fields
        /\ \A p \in DOMAIN fields :
            /\ fields'[p].data = fields[p].data
            /\ Base(fields[lastOp'.id].cls) \in {"Field", "CharField", "BooleanField"}
                    => fields'[p] = fields[p]]_vars

====
